---- MODULE Spec2Model ----
(***************************************************************************)
(* A model of jvanvugt/go-raytracer: the tiled fork-join scheduler of      *)
(* main/processTile, the recursive path integrator castRay, the shape      *)
(* intersection routines and the material scatter routines.                *)
(*                                                                         *)
(* float32 values are modelled as fixed-point integers with three decimal  *)
(* digits: the integer n stands for the number n / 1000.                   *)
(***************************************************************************)
EXTENDS Integers, Sequences, FiniteSets, TLC

(***************************************************************************)
(* Bounds of the model.                                                    *)
(***************************************************************************)
\* const imageWidth = 1280 in the source, scaled down.
imageWidth == 4
\* const imageHeight = 720 in the source, scaled down.
imageHeight == 4

\* The number of go processTile(...) statements in main.
NumWorkers == 4

Workers == 1..NumWorkers

VARIABLES
    mainPc,     \* position of main: "add", "go", "wait", "println", "encode", "done"
    spawned,    \* number of go statements main has executed
    waitGroup,  \* the counter of sync.WaitGroup
    wpc,        \* position of each processTile goroutine
    tile,       \* arguments fromX, fromY, toX, toY of each processTile call
    seed,       \* argument of rand.NewSource of each worker's rng, -1 before seeding
    wx, wy,     \* loop variables x and y of each processTile call
    img,        \* the image buffer: per pixel, the workers that called img.Set on it, in order
    \* one castRay(ray, rng, 0) call of getColor and the invocations nested in it
    world,      \* var world []Shape, fixed after initialisation
    crPc,       \* position of the active castRay invocation
    crRay,      \* argument ray of the active invocation
    crBounced,  \* argument bounced of the active invocation
    crHit,      \* closestHit of the active invocation
    crStack,    \* the invocations suspended in the recursive call of line 120, outermost first
    crRet,      \* the value the active invocation returns
    crDone,     \* a record of the invocation that returned last
    crDeepest,  \* the largest bounced argument of the invocations made so far
    \* one call of Shape.Intersect
    ixPc, ixShape, ixRay, ixHit,
    \* one call of Dielectric.Scatter
    dsPc, dsMat, dsRay, dsHit, dsU, dsOut

schedVars == <<mainPc, spawned, waitGroup, wpc, tile, seed, wx, wy, img>>

castVars == <<world, crPc, crRay, crBounced, crHit, crStack, crRet, crDone, crDeepest>>

shapeVars == <<ixPc, ixShape, ixRay, ixHit>>

dielVars == <<dsPc, dsMat, dsRay, dsHit, dsU, dsOut>>

vars == <<schedVars, castVars, shapeVars, dielVars>>

Pixels == (0..(imageWidth - 1)) \X (0..(imageHeight - 1))

NoTile == [fromX |-> 0, fromY |-> 0, toX |-> 0, toY |-> 0]

\* A copy-paste slip: the fourth go statement repeats the third one's rectangle.
TilesCopyPaste ==
    <<[fromX |-> 0,                  fromY |-> 0,                   toX |-> imageWidth \div 2, toY |-> imageHeight \div 2],
      [fromX |-> imageWidth \div 2,  fromY |-> 0,                   toX |-> imageWidth,        toY |-> imageHeight \div 2],
      [fromX |-> 0,                  fromY |-> imageHeight \div 2,  toX |-> imageWidth \div 2, toY |-> imageHeight],
      [fromX |-> 0,                  fromY |-> imageHeight \div 2,  toX |-> imageWidth \div 2, toY |-> imageHeight]>>

\* The tile arguments of the four go statements of main, in program order.
Tiles ==
    <<[fromX |-> 0,                  fromY |-> 0,                   toX |-> imageWidth \div 2, toY |-> imageHeight \div 2],
      [fromX |-> imageWidth \div 2,  fromY |-> 0,                   toX |-> imageWidth,        toY |-> imageHeight \div 2],
      [fromX |-> 0,                  fromY |-> imageHeight \div 2,  toX |-> imageWidth \div 2, toY |-> imageHeight],
      [fromX |-> imageWidth \div 2,  fromY |-> imageHeight \div 2,  toX |-> imageWidth,        toY |-> imageHeight]>>

\* The seed every processTile passes to rand.NewSource.
TileSeed(w) == 0

\* The delta main passes to waitGroup.Add.
WaitGroupDelta == 4

\* A Wait that lets main through while one worker is still running.
WaitReturnsEarly(counter) == counter <= 1

\* waitGroup.Wait() returns when the counter is zero.
WaitReturns(counter) == counter = 0

(***************************************************************************)
(* float32 arithmetic (math.go), in fixed point: n stands for n / Scale.   *)
(* Every operation rounds its exact result to the nearest representable    *)
(* value, as IEEE arithmetic does at its own precision.                    *)
(***************************************************************************)
\* The number of fixed-point units in 1.0.
Scale == 1000

\* Abs computes the absolute value of a float32
Abs(x) == IF x > 0 THEN x ELSE -x

\* The quotient n / d rounded to the nearest integer, ties away from zero.
RoundDiv(n, d) ==
    LET q == (2 * Abs(n) + Abs(d)) \div (2 * Abs(d))
    IN  IF (n < 0) # (d < 0) THEN -q ELSE q

\* a * b on float32
FMul(a, b) == RoundDiv(a * b, Scale)

\* a / b on float32
FDiv(a, b) == RoundDiv(a * Scale, b)

RECURSIVE SqrtSearch(_, _, _)
\* The largest r in lo..(hi - 1) with r * r <= n, given lo * lo <= n < hi * hi.
SqrtSearch(n, lo, hi) ==
    IF hi - lo <= 1 THEN lo
    ELSE LET mid == (lo + hi) \div 2
         IN  IF mid * mid <= n THEN SqrtSearch(n, mid, hi) ELSE SqrtSearch(n, lo, mid)

\* Sqrt computes the sqrt of a float32 (rounded to the nearest value)
Sqrt(x) ==
    LET n == x * Scale
        r == SqrtSearch(n, 0, 46341)
    IN  IF n - r * r > r THEN r + 1 ELSE r

\* Vec3 represents a 3D vector
Vec3(x, y, z) == [X |-> x, Y |-> y, Z |-> z]

\* Dot product between two vectors
Dot(a, b) == FMul(a.X, b.X) + FMul(a.Y, b.Y) + FMul(a.Z, b.Z)

\* SquaredLength of the vector
SquaredLength(v) == Dot(v, v)

\* Length of the vector
Length(v) == Sqrt(SquaredLength(v))

\* Sub computes a - b
Sub(a, b) == Vec3(a.X - b.X, a.Y - b.Y, a.Z - b.Z)

\* Add computes a + b
Add(a, b) == Vec3(a.X + b.X, a.Y + b.Y, a.Z + b.Z)

\* MulScalar computes s * a
MulScalar(s, a) == Vec3(FMul(a.X, s), FMul(a.Y, s), FMul(a.Z, s))

\* DivScalar computes a / s
DivScalar(s, a) == Vec3(FDiv(a.X, s), FDiv(a.Y, s), FDiv(a.Z, s))

\* An attenuation that adds the colours instead of multiplying them.
MulAsAdd(a, b) == Vec3(a.X + b.X, a.Y + b.Y, a.Z + b.Z)

\* Mul computes the elementwise product between two vectors
Mul(a, b) == Vec3(FMul(a.X, b.X), FMul(a.Y, b.Y), FMul(a.Z, b.Z))

\* Normalize a vector
Normalize(a) == DivScalar(Length(a), a)

\* RandomUniform sample a random number in [-1, 1), from the value f of rng.Float32()
RandomUniform(f) == FMul(f, 2 * Scale) - Scale

(***************************************************************************)
(* Ray and Hit (part_000), shapes (part_001).                              *)
(***************************************************************************)
Ray(origin, direction) == [Origin |-> origin, Direction |-> direction]

\* At computes the point on the ray at t
At(ray, t) == Add(ray.Origin, MulScalar(t, ray.Direction))

\* A nil *Hit; a non-nil *Hit is the one-element sequence holding the Hit.
Nil == <<>>

\* NewHit creates a Hit object
NewHit(t, ray, normal, material) ==
    <<[T |-> t, Position |-> At(ray, t), Normal |-> normal, Material |-> material]>>

Lambertian(albedo) ==
    [kind |-> "Lambertian", Albedo |-> albedo, fuzz |-> 0, ReflectionIndex |-> 0]

Metal(albedo, fuzz) ==
    [kind |-> "Metal", Albedo |-> albedo, fuzz |-> fuzz, ReflectionIndex |-> 0]

Dielectric(reflectionIndex) ==
    [kind |-> "Dielectric", Albedo |-> Vec3(0, 0, 0), fuzz |-> 0, ReflectionIndex |-> reflectionIndex]

Sphere(position, radius, material) ==
    [kind |-> "Sphere", Position |-> position, Radius |-> radius,
     Normal |-> Vec3(0, 0, 0), Along |-> 0, Material |-> material]

Plane(normal, along, material) ==
    [kind |-> "Plane", Position |-> Vec3(0, 0, 0), Radius |-> 0,
     Normal |-> normal, Along |-> along, Material |-> material]

\* The literal 1e-3 of Sphere.Intersect.
SphereEpsilon == 1

\* The literal 1e-3 of Plane.Intersect.
PlaneEpsilon == 1

\* Intersect check whether the ray intersects the sphere
SphereIntersect(sphere, ray) ==
    LET a == Dot(ray.Direction, ray.Direction)
        relPos == Sub(ray.Origin, sphere.Position)
        b == 2 * Dot(ray.Direction, relPos)
        c == Dot(relPos, relPos) - FMul(sphere.Radius, sphere.Radius)
        discriminant == FMul(b, b) - FMul(4 * a, c)
    IN  IF discriminant < 0 THEN Nil
        ELSE LET t1 == FDiv(-b - Sqrt(discriminant), 2 * a)
                 t == IF t1 < 0 THEN FDiv(-b + Sqrt(discriminant), 2 * a) ELSE t1
             IN  IF t <= SphereEpsilon THEN Nil
                 ELSE LET normal == Normalize(DivScalar(sphere.Radius, Sub(At(ray, t), sphere.Position)))
                      IN  NewHit(t, ray, normal, sphere.Material)

\* Intersect checks if a ray intersects with the plane
PlaneIntersect(plane, ray) ==
    LET denom == Dot(plane.Normal, ray.Direction)
    IN  \* math.Abs(float64(denom)) < 1e-6: below one fixed-point unit only 0 is
        IF Abs(denom) * Scale < 1 THEN Nil
        ELSE LET planePoint == MulScalar(plane.Along, plane.Normal)
                 t == FDiv(Dot(planePoint, plane.Normal) - Dot(plane.Normal, ray.Origin), denom)
             IN  IF t < PlaneEpsilon THEN Nil
                 ELSE NewHit(t, ray, plane.Normal, plane.Material)

\* shape.Intersect(ray): the dynamic dispatch on the Shape interface
Intersect(shape, ray) ==
    IF shape.kind = "Sphere" THEN SphereIntersect(shape, ray)
    ELSE PlaneIntersect(shape, ray)

(***************************************************************************)
(* Materials (part_001).  A Scatter result is the record of its three      *)
(* return values, plus usedRng: the number of rng.Float32() calls it made  *)
(* directly (RandomPointInUnitSphere's draws are not counted).             *)
(***************************************************************************)
\* The values rng.Float32() returns in the model.
Float32Draws == {250, 750}

\* RandomPointInUnitSphere samples a random point inside the unit sphere: the
\* vectors its rejection loop can return, those with SquaredLength <= 1.
RandomPointInUnitSphere ==
    {v \in {Vec3(RandomUniform(a), RandomUniform(b), RandomUniform(c)) :
                a \in Float32Draws, b \in Float32Draws, c \in Float32Draws} :
        SquaredLength(v) <= Scale}

ScatterResult(didScatter, attenuation, scattered, usedRng) ==
    [didScatter |-> didScatter, attenuation |-> attenuation,
     scattered |-> scattered, usedRng |-> usedRng]

\* Scatter a ray on a lambertian material; rnd is RandomPointInUnitSphere(rng)
LambertianScatter(mat, ray, hit, rnd) ==
    LET direction == Normalize(Add(rnd, hit.Normal))
        bouncingRay == Ray(hit.Position, direction)
    IN  ScatterResult(TRUE, mat.Albedo, bouncingRay, 0)

reflect(incoming, normal) ==
    Sub(incoming, MulScalar(2 * Dot(normal, incoming), normal))

\* Scatter a ray on a metal material; rnd is RandomPointInUnitSphere(rng)
MetalScatter(mat, ray, hit, rnd) ==
    LET direction0 == reflect(ray.Direction, hit.Normal)
        direction == Normalize(Add(direction0, MulScalar(mat.fuzz, rnd)))
        bouncingRay == Ray(hit.Position, direction)
    IN  ScatterResult(Dot(direction, hit.Normal) > 0, mat.Albedo, bouncingRay, 0)

\* The discriminant 1 - niOverNt*niOverNt*(1-dt*dt) of refract.
RefractDiscriminant(incoming, normal, niOverNt) ==
    LET dt == Dot(incoming, normal)
    IN  Scale - FMul(FMul(niOverNt, niOverNt), Scale - FMul(dt, dt))

\* A refract that also refracts at discriminant zero.
refractAtZero(incoming, normal, niOverNt) ==
    LET dt == Dot(incoming, normal)
        discriminant == RefractDiscriminant(incoming, normal, niOverNt)
    IN  IF discriminant >= 0
        THEN [didRefract |-> TRUE,
              refraction |-> Normalize(Sub(MulScalar(niOverNt, Sub(incoming, MulScalar(dt, normal))),
                                           MulScalar(Sqrt(discriminant), normal)))]
        ELSE [didRefract |-> FALSE, refraction |-> Vec3(0, 0, 0)]

refract(incoming, normal, niOverNt) ==
    LET dt == Dot(incoming, normal)
        discriminant == RefractDiscriminant(incoming, normal, niOverNt)
    IN  IF discriminant > 0
        THEN [didRefract |-> TRUE,
              refraction |-> Normalize(Sub(MulScalar(niOverNt, Sub(incoming, MulScalar(dt, normal))),
                                           MulScalar(Sqrt(discriminant), normal)))]
        ELSE [didRefract |-> FALSE, refraction |-> Vec3(0, 0, 0)]

schlick(cosine, reflectionIndex) ==
    LET r == FDiv(Scale - reflectionIndex, Scale + reflectionIndex)
        r0 == FMul(r, r)
        base == Scale - cosine
    IN  r0 + FMul(FMul(FMul(FMul(FMul(Scale - r0, base), base), base), base), base)

\* Scatter a ray on a dielectric; u is the value rng.Float32() returns if called
DielectricScatter(mat, ray, hit, u) ==
    LET entering == ~(Dot(ray.Direction, hit.Normal) > 0)
        outwardNormal == IF entering THEN hit.Normal ELSE MulScalar(-Scale, hit.Normal)
        niOverNt == IF entering THEN FDiv(Scale, mat.ReflectionIndex) ELSE mat.ReflectionIndex
        cosine == IF entering THEN -Dot(ray.Direction, hit.Normal)
                  ELSE FMul(mat.ReflectionIndex, Dot(ray.Direction, hit.Normal))
        r == refract(ray.Direction, outwardNormal, niOverNt)
        \* && evaluates rng.Float32() only when didRefract holds
        usedRng == IF r.didRefract THEN 1 ELSE 0
    IN  IF r.didRefract /\ schlick(cosine, mat.ReflectionIndex) < u
        THEN ScatterResult(TRUE, Vec3(Scale, Scale, Scale), Ray(hit.Position, r.refraction), usedRng)
        ELSE LET reflected == reflect(ray.Direction, hit.Normal)
             IN  ScatterResult(TRUE, Vec3(Scale, Scale, Scale), Ray(hit.Position, reflected), usedRng)

\* closestHit.Material.Scatter(ray, *closestHit, rng): the dynamic dispatch
Scatter(mat, ray, hit, rnd, u) ==
    CASE mat.kind = "Lambertian" -> LambertianScatter(mat, ray, hit, rnd)
      [] mat.kind = "Metal" -> MetalScatter(mat, ray, hit, rnd)
      [] OTHER -> DielectricScatter(mat, ray, hit, u)

Zero == Vec3(0, 0, 0)

NoRay == Ray(Zero, Zero)

NoDone ==
    [valid |-> FALSE, bounced |-> 0, ray |-> NoRay, queried |-> FALSE, hit |-> Nil,
     scatterCalls |-> 0, didScatter |-> FALSE, attenuation |-> Zero,
     scattered |-> NoRay, child |-> <<>>, ret |-> Zero]

\* The state of main before its first statement; no castRay, Intersect or
\* Dielectric.Scatter call is followed.
Init ==
    /\ mainPc = "add"
    /\ spawned = 0
    /\ waitGroup = 0
    /\ wpc = [w \in Workers |-> "idle"]
    /\ tile = [w \in Workers |-> NoTile]
    /\ seed = [w \in Workers |-> -1]
    /\ wx = [w \in Workers |-> 0]
    /\ wy = [w \in Workers |-> 0]
    /\ img = [p \in Pixels |-> <<>>]
    /\ world = <<>>
    /\ crPc = "off"
    /\ crRay = NoRay
    /\ crBounced = 0
    /\ crHit = Nil
    /\ crStack = <<>>
    /\ crRet = Zero
    /\ crDone = NoDone
    /\ crDeepest = 0
    /\ ixPc = "off"
    /\ ixShape = Plane(Zero, 0, Lambertian(Zero))
    /\ ixRay = NoRay
    /\ ixHit = Nil
    /\ dsPc = "off"
    /\ dsMat = Dielectric(0)
    /\ dsRay = NoRay
    /\ dsHit = Nil
    /\ dsU = 0
    /\ dsOut = ScatterResult(FALSE, Zero, NoRay, 0)

\* img := image.NewNRGBA(...); var waitGroup sync.WaitGroup; waitGroup.Add(4)
MainAdd ==
    /\ mainPc = "add"
    /\ waitGroup' = waitGroup + WaitGroupDelta
    /\ mainPc' = "go"
    /\ UNCHANGED <<spawned, wpc, tile, seed, wx, wy, img, castVars, shapeVars, dielVars>>

\* go processTile(img, &camera, fromX, fromY, toX, toY, &waitGroup)
MainGo ==
    /\ mainPc = "go"
    /\ spawned < NumWorkers
    /\ LET w == spawned + 1 IN
        /\ tile' = [tile EXCEPT ![w] = Tiles[w]]
        /\ wpc' = [wpc EXCEPT ![w] = "seed"]
    /\ spawned' = spawned + 1
    /\ mainPc' = IF spawned + 1 = NumWorkers THEN "wait" ELSE "go"
    /\ UNCHANGED <<waitGroup, seed, wx, wy, img, castVars, shapeVars, dielVars>>

\* waitGroup.Wait()
MainWait ==
    /\ mainPc = "wait"
    /\ WaitReturns(waitGroup)
    /\ mainPc' = "println"
    /\ UNCHANGED <<spawned, waitGroup, wpc, tile, seed, wx, wy, img, castVars, shapeVars, dielVars>>

\* fmt.Println("Hello world"); f, _ := os.Create("out.png")
MainPrintln ==
    /\ mainPc = "println"
    /\ mainPc' = "encode"
    /\ UNCHANGED <<spawned, waitGroup, wpc, tile, seed, wx, wy, img, castVars, shapeVars, dielVars>>

\* png.Encode(f, img), then main returns
MainEncode ==
    /\ mainPc = "encode"
    /\ mainPc' = "done"
    /\ UNCHANGED <<spawned, waitGroup, wpc, tile, seed, wx, wy, img, castVars, shapeVars, dielVars>>

\* rng := rand.New(rand.NewSource(0)); y := fromY; x := fromX
ProcessTileSeed(w) ==
    /\ wpc[w] = "seed"
    /\ seed' = [seed EXCEPT ![w] = TileSeed(w)]
    /\ wy' = [wy EXCEPT ![w] = tile[w].fromY]
    /\ wx' = [wx EXCEPT ![w] = tile[w].fromX]
    /\ wpc' = [wpc EXCEPT ![w] = "loop"]
    /\ UNCHANGED <<mainPc, spawned, waitGroup, tile, img, castVars, shapeVars, dielVars>>

\* A Set without the vertical flip: row y instead of imageHeight - y - 1.
SetCoordUnmirrored(x, y) == <<x, y>>

\* The vertical flip off by one: row imageHeight - y instead of imageHeight - y - 1.
SetCoordOffByOne(x, y) == <<x, imageHeight - y>>

\* The pixel coordinate img.Set is called with for loop variables x, y.
SetCoord(x, y) == <<x, imageHeight - y - 1>>

\* One iteration of the inner loop: getColor, gamma correction, img.Set, x++
ProcessTilePixel(w) ==
    /\ wpc[w] = "loop"
    /\ wy[w] < tile[w].toY
    /\ wx[w] < tile[w].toX
    /\ LET p == SetCoord(wx[w], wy[w]) IN
        \* image.NRGBA.Set ignores a point outside the image rectangle
        img' = IF p \in Pixels THEN [img EXCEPT ![p] = Append(@, w)] ELSE img
    /\ wx' = [wx EXCEPT ![w] = @ + 1]
    /\ UNCHANGED <<mainPc, spawned, waitGroup, wpc, tile, seed, wy, castVars, shapeVars, dielVars>>

\* The inner loop ends: y++, x := fromX
ProcessTileNextRow(w) ==
    /\ wpc[w] = "loop"
    /\ wy[w] < tile[w].toY
    /\ wx[w] >= tile[w].toX
    /\ wy' = [wy EXCEPT ![w] = @ + 1]
    /\ wx' = [wx EXCEPT ![w] = tile[w].fromX]
    /\ UNCHANGED <<mainPc, spawned, waitGroup, wpc, tile, seed, img, castVars, shapeVars, dielVars>>

\* A processTile without the defer statement: it returns and never calls Done.
ProcessTileReturnNoDefer(w) ==
    /\ wpc[w] = "loop"
    /\ wy[w] >= tile[w].toY
    /\ wpc' = [wpc EXCEPT ![w] = "done"]
    /\ UNCHANGED <<mainPc, spawned, waitGroup, tile, seed, wx, wy, img, castVars, shapeVars, dielVars>>

\* The outer loop ends; processTile returns and the deferred waitGroup.Done() runs
ProcessTileReturn(w) ==
    /\ wpc[w] = "loop"
    /\ wy[w] >= tile[w].toY
    /\ waitGroup' = waitGroup - 1
    /\ wpc' = [wpc EXCEPT ![w] = "done"]
    /\ UNCHANGED <<mainPc, spawned, tile, seed, wx, wy, img, castVars, shapeVars, dielVars>>

Next ==
    \/ MainAdd
    \/ MainGo
    \/ MainWait
    \/ MainPrintln
    \/ MainEncode
    \/ \E w \in Workers : ProcessTileSeed(w)
    \/ \E w \in Workers : ProcessTilePixel(w)
    \/ \E w \in Workers : ProcessTileNextRow(w)
    \/ \E w \in Workers : ProcessTileReturn(w)

Spec == Init /\ [][Next]_vars

\* The steps of the main goroutine.
MainStep == MainAdd \/ MainGo \/ MainWait \/ MainPrintln \/ MainEncode

\* The steps of the goroutine started by the w-th go statement.
ProcessTileStep(w) ==
    \/ ProcessTileSeed(w)
    \/ ProcessTilePixel(w)
    \/ ProcessTileNextRow(w)
    \/ ProcessTileReturn(w)

\* The Go scheduler runs every goroutine that can take a step: main and each
\* processTile goroutine are scheduled fairly.
SpecFair ==
    /\ Spec
    /\ WF_vars(MainStep)
    /\ \A w \in Workers : WF_vars(ProcessTileStep(w))

(***************************************************************************)
(* castRay (part_000): one call castRay(ray, rng, 0) made by getColor and   *)
(* the chain of invocations nested in it.                                  *)
(***************************************************************************)
\* const maxBounces = 50 in the source, scaled down.
maxBounces == 3

\* math.MaxFloat32: the largest value of the model's number type.
MaxFloat32 == 2147483647

\* A budget test that lets the recursion run two levels too deep.
BudgetExceededLate(bounced) == bounced > maxBounces + 2

\* A budget test that stops the recursion one level early.
BudgetExceededEarly(bounced) == bounced >= maxBounces

\* if bounced > maxBounces
BudgetExceeded(bounced) == bounced > maxBounces

RECURSIVE ScanShapes(_, _, _, _, _)
\* The loop of castRay over world from index i on, with the current closest, closestHit.
ScanShapes(w, ray, i, closest, closestHit) ==
    IF i > Len(w) THEN closestHit
    ELSE LET hit == Intersect(w[i], ray)
         IN  IF hit # Nil /\ hit[1].T < closest
             THEN ScanShapes(w, ray, i + 1, hit[1].T, hit)
             ELSE ScanShapes(w, ray, i + 1, closest, closestHit)

\* A scan that stops at the first shape hit.
SceneQueryFirstHit(w, ray) ==
    LET hits == {i \in 1..Len(w) : Intersect(w[i], ray) # Nil}
    IN  IF hits = {} THEN Nil
        ELSE Intersect(w[CHOOSE i \in hits : \A j \in hits : i <= j], ray)

\* closest := float32(math.MaxFloat32); var closestHit *Hit; for _, shape := range world {...}
SceneQuery(w, ray) == ScanShapes(w, ray, 1, MaxFloat32, Nil)

\* The sky gradient castRay returns when nothing is hit.
Background(ray) ==
    Add(MulScalar(FDiv(ray.Direction.Y + Scale, 2 * Scale), Vec3(600, 600, 1000)),
        MulScalar(Scale - FDiv(ray.Direction.Y + Scale, 2 * Scale), Vec3(1000, 1000, 1000)))

\* The depth argument of the recursive call: bounced+1
RecursionDepth(bounced) == bounced + 1

\* The record of an invocation that returns.
Done(bounced, ray, queried, hit, scatterCalls, didScatter, attenuation, scattered, child, ret) ==
    [valid |-> TRUE, bounced |-> bounced, ray |-> ray, queried |-> queried, hit |-> hit,
     scatterCalls |-> scatterCalls, didScatter |-> didScatter, attenuation |-> attenuation,
     scattered |-> scattered, child |-> child, ret |-> ret]

(***************************************************************************)
(* The scenes and primary rays of the model.                               *)
(***************************************************************************)
MirrorFloor == Plane(Vec3(0, 1000, 0), -1000, Metal(Vec3(800, 600, 200), 0))

MirrorCeiling == Plane(Vec3(0, -1000, 0), -1000, Metal(Vec3(1000, 1000, 1000), 0))

DiffuseBall == Sphere(Vec3(0, 0, 2000), 500, Lambertian(Vec3(100, 200, 500)))

MetalBall == Sphere(Vec3(1000, 0, 2000), 500, Metal(Vec3(800, 600, 200), 0))

GlassBall == Sphere(Vec3(-1000, 0, 2000), 450, Dielectric(1500))

DiffuseFloor == Plane(Vec3(0, 1000, 0), -500, Lambertian(Vec3(800, 800, 0)))

FuzzyFloor == Plane(Vec3(0, 1000, 0), -500, Metal(Vec3(800, 800, 800), 300))

FuzzyBall == Sphere(Vec3(0, 1000, 0), 500, Metal(Vec3(1000, 1000, 1000), 300))

\* All orderings of the shapes of a set.
Orderings(shapes) ==
    {w \in [1..Cardinality(shapes) -> shapes] : \A i, j \in DOMAIN w : i # j => w[i] # w[j]}

Scenes ==
    Orderings({MirrorFloor, MirrorCeiling})
        \cup Orderings({DiffuseBall, GlassBall, DiffuseFloor})
        \cup Orderings({FuzzyFloor, DiffuseFloor})
        \cup {<<DiffuseBall, DiffuseFloor, MetalBall, GlassBall>>,
              <<MirrorFloor, FuzzyBall>>, <<FuzzyFloor, DiffuseBall>>, <<>>}

\* The rays getColor obtains from camera.getRay: from the camera position.
PrimaryRays ==
    {Ray(Zero, d) : d \in {Vec3(0, -1000, 0), Vec3(0, 0, 1000), Vec3(0, 1000, 0),
                           Vec3(-447, 0, 894), Vec3(447, 0, 894), Vec3(0, -141, 990)}}

\* var world = []Shape{...}, initialised before main runs; getColor is about
\* to call castRay.  The scheduler is not followed.
CastInit ==
    /\ world \in Scenes
    /\ crPc = "idle"
    /\ crRay = NoRay
    /\ crBounced = 0
    /\ crHit = Nil
    /\ crStack = <<>>
    /\ crRet = Zero
    /\ crDone = NoDone
    /\ crDeepest = 0
    /\ mainPc = "off"
    /\ spawned = 0
    /\ waitGroup = 0
    /\ wpc = [w \in Workers |-> "idle"]
    /\ tile = [w \in Workers |-> NoTile]
    /\ seed = [w \in Workers |-> -1]
    /\ wx = [w \in Workers |-> 0]
    /\ wy = [w \in Workers |-> 0]
    /\ img = [p \in Pixels |-> <<>>]
    /\ ixPc = "off"
    /\ ixShape = Plane(Zero, 0, Lambertian(Zero))
    /\ ixRay = NoRay
    /\ ixHit = Nil
    /\ dsPc = "off"
    /\ dsMat = Dielectric(0)
    /\ dsRay = NoRay
    /\ dsHit = Nil
    /\ dsU = 0
    /\ dsOut = ScatterResult(FALSE, Zero, NoRay, 0)

\* getColor: ray := camera.getRay(...); castRay(ray, rng, 0)
CastRayCall ==
    /\ crPc = "idle"
    /\ \E ray \in PrimaryRays : crRay' = ray
    /\ crBounced' = 0
    /\ crPc' = "enter"
    /\ UNCHANGED <<world, crHit, crStack, crRet, crDone, crDeepest, schedVars, shapeVars, dielVars>>

\* if bounced > maxBounces { return Vec3{0, 0, 0} }
CastRayExhausted ==
    /\ crPc = "enter"
    /\ BudgetExceeded(crBounced)
    /\ crRet' = Zero
    /\ crDone' = Done(crBounced, crRay, FALSE, Nil, 0, FALSE, Zero, NoRay, <<>>, Zero)
    /\ crPc' = "return"
    /\ UNCHANGED <<world, crRay, crBounced, crHit, crStack, crDeepest, schedVars, shapeVars, dielVars>>

\* The scan of world for the closest hit.
CastRayQuery ==
    /\ crPc = "enter"
    /\ ~BudgetExceeded(crBounced)
    /\ crHit' = SceneQuery(world, crRay)
    /\ crPc' = "queried"
    /\ UNCHANGED <<world, crRay, crBounced, crStack, crRet, crDone, crDeepest, schedVars, shapeVars, dielVars>>

\* closestHit == nil: return the background
CastRayMiss ==
    /\ crPc = "queried"
    /\ crHit = Nil
    /\ crRet' = Background(crRay)
    /\ crDone' = Done(crBounced, crRay, TRUE, Nil, 0, FALSE, Zero, NoRay, <<>>, Background(crRay))
    /\ crPc' = "return"
    /\ UNCHANGED <<world, crRay, crBounced, crHit, crStack, crDeepest, schedVars, shapeVars, dielVars>>

\* closestHit != nil, Scatter returns didScatter: the recursive call of line 120
CastRayScatterRecurse ==
    /\ crPc = "queried"
    /\ crHit # Nil
    /\ \E rnd \in RandomPointInUnitSphere, u \in Float32Draws :
        LET sc == Scatter(crHit[1].Material, crRay, crHit[1], rnd, u) IN
        /\ sc.didScatter
        /\ crStack' = Append(crStack, [ray |-> crRay, bounced |-> crBounced, hit |-> crHit,
                                       scatterCalls |-> 1, attenuation |-> sc.attenuation,
                                       scattered |-> sc.scattered])
        /\ crRay' = sc.scattered
    /\ crBounced' = RecursionDepth(crBounced)
    /\ crDeepest' = IF crBounced' > crDeepest THEN crBounced' ELSE crDeepest
    /\ crHit' = Nil
    /\ crPc' = "enter"
    /\ UNCHANGED <<world, crRet, crDone, schedVars, shapeVars, dielVars>>

\* closestHit != nil, Scatter declines: return Vec3{0, 0, 0}
CastRayScatterAbsorb ==
    /\ crPc = "queried"
    /\ crHit # Nil
    /\ \E rnd \in RandomPointInUnitSphere, u \in Float32Draws :
        LET sc == Scatter(crHit[1].Material, crRay, crHit[1], rnd, u) IN
        /\ ~sc.didScatter
        /\ crDone' = Done(crBounced, crRay, TRUE, crHit, 1, FALSE, sc.attenuation,
                          sc.scattered, <<>>, Zero)
    /\ crRet' = Zero
    /\ crPc' = "return"
    /\ UNCHANGED <<world, crRay, crBounced, crHit, crStack, crDeepest, schedVars, shapeVars, dielVars>>

\* The recursive call returns: return Mul(attenuation, castRay(scatteredRay, rng, bounced+1))
CastRayResume ==
    /\ crPc = "return"
    /\ crStack # <<>>
    /\ LET f == crStack[Len(crStack)]
           ret == Mul(f.attenuation, crRet)
       IN
        /\ crRet' = ret
        /\ crDone' = Done(f.bounced, f.ray, TRUE, f.hit, f.scatterCalls, TRUE, f.attenuation,
                          f.scattered,
                          <<[bounced |-> crDone.bounced, ray |-> crDone.ray, ret |-> crRet]>>,
                          ret)
        /\ crRay' = f.ray
        /\ crBounced' = f.bounced
        /\ crHit' = f.hit
    /\ crStack' = SubSeq(crStack, 1, Len(crStack) - 1)
    /\ UNCHANGED <<world, crPc, crDeepest, schedVars, shapeVars, dielVars>>

\* The outermost invocation returns to getColor.
CastRayFinish ==
    /\ crPc = "return"
    /\ crStack = <<>>
    /\ crPc' = "done"
    /\ UNCHANGED <<world, crRay, crBounced, crHit, crStack, crRet, crDone, crDeepest, schedVars, shapeVars, dielVars>>

NextCast ==
    \/ CastRayCall
    \/ CastRayExhausted
    \/ CastRayQuery
    \/ CastRayMiss
    \/ CastRayScatterRecurse
    \/ CastRayScatterAbsorb
    \/ CastRayResume
    \/ CastRayFinish

SpecCast == CastInit /\ [][NextCast]_vars

\* The steps of an invocation that scan the scene or call Scatter.  One of
\* them is enabled exactly when the active invocation is at "enter" within
\* its budget or at "queried".
CastRayCompute ==
    \/ CastRayQuery
    \/ CastRayMiss
    \/ CastRayScatterRecurse
    \/ CastRayScatterAbsorb

CastRayComputeEnabled ==
    \/ crPc = "enter" /\ ~BudgetExceeded(crBounced)
    \/ crPc = "queried"

\* A running call keeps executing: castRay blocks nowhere, so every step of
\* it is weakly fair.  For the steps of CastRayCompute weak fairness is
\* written out by its definition, []<>~ENABLED <<A>>_vars \/ []<><<A>>_vars,
\* with the enabling condition stated as CastRayComputeEnabled.
SpecCastFair ==
    /\ SpecCast
    /\ WF_vars(CastRayCall)
    /\ WF_vars(CastRayExhausted)
    /\ WF_vars(CastRayResume)
    /\ WF_vars(CastRayFinish)
    /\ ([]<>(~CastRayComputeEnabled) \/ []<><<CastRayCompute>>_vars)

(***************************************************************************)
(* Shape.Intersect (part_001) applied to one shape and one ray.            *)
(***************************************************************************)
ShapeInputs ==
    {DiffuseBall, GlassBall, MirrorFloor, MirrorCeiling,
     Sphere(Zero, 1000, Lambertian(Vec3(500, 500, 500))),
     Plane(Vec3(0, 1000, 0), 0, Lambertian(Vec3(500, 500, 500)))}

RayInputs ==
    {Ray(o, d) :
        o \in {Zero, Vec3(0, -1, 0), Vec3(0, -2, 0), Vec3(0, 1, 0), Vec3(0, 0, 1499),
               Vec3(0, 0, 1500), Vec3(500, 0, 0), Vec3(0, -999, 0), Vec3(0, -1000, 0)},
        d \in {Vec3(0, 1000, 0), Vec3(0, -1000, 0), Vec3(0, 0, 1000), Vec3(0, 0, -1000),
               Vec3(1000, 0, 0), Vec3(600, 800, 0), Vec3(0, -600, 800)}}

\* Intersect is about to be called on a shape and a ray; nothing else runs.
ShapeInit ==
    /\ ixPc = "call"
    /\ ixShape \in ShapeInputs
    /\ ixRay \in RayInputs
    /\ ixHit = Nil
    /\ mainPc = "off"
    /\ spawned = 0
    /\ waitGroup = 0
    /\ wpc = [w \in Workers |-> "idle"]
    /\ tile = [w \in Workers |-> NoTile]
    /\ seed = [w \in Workers |-> -1]
    /\ wx = [w \in Workers |-> 0]
    /\ wy = [w \in Workers |-> 0]
    /\ img = [p \in Pixels |-> <<>>]
    /\ world = <<>>
    /\ crPc = "off"
    /\ crRay = NoRay
    /\ crBounced = 0
    /\ crHit = Nil
    /\ crStack = <<>>
    /\ crRet = Zero
    /\ crDone = NoDone
    /\ crDeepest = 0
    /\ dsPc = "off"
    /\ dsMat = Dielectric(0)
    /\ dsRay = NoRay
    /\ dsHit = Nil
    /\ dsU = 0
    /\ dsOut = ScatterResult(FALSE, Zero, NoRay, 0)

\* hit := shape.Intersect(ray) on a Sphere
SphereIntersectCall ==
    /\ ixPc = "call"
    /\ ixShape.kind = "Sphere"
    /\ ixHit' = SphereIntersect(ixShape, ixRay)
    /\ ixPc' = "returned"
    /\ UNCHANGED <<ixShape, ixRay, schedVars, castVars, dielVars>>

\* hit := shape.Intersect(ray) on a Plane
PlaneIntersectCall ==
    /\ ixPc = "call"
    /\ ixShape.kind = "Plane"
    /\ ixHit' = PlaneIntersect(ixShape, ixRay)
    /\ ixPc' = "returned"
    /\ UNCHANGED <<ixShape, ixRay, schedVars, castVars, dielVars>>

NextShape ==
    \/ SphereIntersectCall
    \/ PlaneIntersectCall

SpecShape == ShapeInit /\ [][NextShape]_vars

(***************************************************************************)
(* Dielectric.Scatter (part_001) applied to one ray, hit and rng value.    *)
(***************************************************************************)
DielectricInputs == {Dielectric(1000), Dielectric(1250), Dielectric(1500)}

DirectionInputs ==
    {Vec3(0, -1000, 0), Vec3(600, -800, 0), Vec3(800, -600, 0), Vec3(1000, 0, 0),
     Vec3(800, 600, 0), Vec3(600, 800, 0), Vec3(0, 1000, 0), Vec3(0, 0, 1000)}

NormalInputs == {Vec3(0, 1000, 0), Vec3(0, -1000, 0), Vec3(1000, 0, 0)}

\* Dielectric.Scatter is about to be called; nothing else runs.
DielInit ==
    /\ dsPc = "call"
    /\ dsMat \in DielectricInputs
    /\ dsRay \in {Ray(Vec3(0, 1000, 0), d) : d \in DirectionInputs}
    /\ dsHit \in {NewHit(1000, Ray(Vec3(0, 1000, 0), d), n, Dielectric(0)) :
                    d \in DirectionInputs, n \in NormalInputs}
    /\ dsHit[1].Position = At(dsRay, 1000)
    /\ dsHit[1].Material = Dielectric(0)
    /\ dsU \in Float32Draws
    /\ dsOut = ScatterResult(FALSE, Zero, NoRay, 0)
    /\ mainPc = "off"
    /\ spawned = 0
    /\ waitGroup = 0
    /\ wpc = [w \in Workers |-> "idle"]
    /\ tile = [w \in Workers |-> NoTile]
    /\ seed = [w \in Workers |-> -1]
    /\ wx = [w \in Workers |-> 0]
    /\ wy = [w \in Workers |-> 0]
    /\ img = [p \in Pixels |-> <<>>]
    /\ world = <<>>
    /\ crPc = "off"
    /\ crRay = NoRay
    /\ crBounced = 0
    /\ crHit = Nil
    /\ crStack = <<>>
    /\ crRet = Zero
    /\ crDone = NoDone
    /\ crDeepest = 0
    /\ ixPc = "off"
    /\ ixShape = Plane(Zero, 0, Lambertian(Zero))
    /\ ixRay = NoRay
    /\ ixHit = Nil

\* didScatter, attenuation, scatteredRay := mat.Scatter(ray, hit, rng)
DielectricScatterCall ==
    /\ dsPc = "call"
    /\ dsOut' = DielectricScatter(dsMat, dsRay, dsHit[1], dsU)
    /\ dsPc' = "returned"
    /\ UNCHANGED <<dsMat, dsRay, dsHit, dsU, schedVars, castVars, shapeVars>>

NextDiel == DielectricScatterCall

SpecDiel == DielInit /\ [][NextDiel]_vars

(***************************************************************************)
(* Claims about castRay.                                                   *)
(***************************************************************************)
\* C4 as claimed: an invocation with bounced = maxBounces returns exactly zero.
C4_ZeroAtMaxBounces ==
    (crDone.valid /\ crDone.bounced = maxBounces) => crDone.ret = Zero

\* C4 amended: an invocation with bounced > maxBounces returns zero without
\* scanning the scene or scattering; an invocation with bounced = maxBounces
\* scans the scene and returns zero when it hits a shape, the background
\* radiance when it hits none.
C4_ZeroBeyondMaxBounces ==
    /\ (crDone.valid /\ crDone.bounced > maxBounces) =>
            /\ crDone.ret = Zero
            /\ ~crDone.queried
            /\ crDone.scatterCalls = 0
    /\ (crDone.valid /\ crDone.bounced = maxBounces) =>
            /\ crDone.queried
            /\ crDone.hit # Nil => crDone.ret = Zero
            /\ crDone.hit = Nil => crDone.ret = Background(crDone.ray)

\* C4 witness: an invocation with bounced = maxBounces has hit a shape,
\* scattered, and got zero back from its nested invocation at maxBounces + 1.
C4_Witness ==
    /\ crDone.valid
    /\ crDone.bounced = maxBounces
    /\ crDone.didScatter
    /\ crDone.child # <<>>
    /\ crDone.child[1].bounced = maxBounces + 1

\* In a running call the active invocation's depth argument is the number
\* of invocations suspended around it, the suspended ones have the depth
\* arguments 0, 1, 2, ... from the outermost inwards, and no depth argument
\* exceeds maxBounces + 1.
C6_DepthsCount ==
    crPc \in {"enter", "queried", "return"} =>
        /\ crBounced = Len(crStack)
        /\ \A i \in 1..Len(crStack) : crStack[i].bounced = i - 1
        /\ crBounced <= maxBounces + 1
        /\ crDeepest <= maxBounces + 1

\* A step changes the depth argument only by entering a nested invocation
\* one deeper or by returning to the invocation one level up.
C6_DepthStep ==
    /\ crBounced' > crBounced => (crBounced' = crBounced + 1 /\ crPc' = "enter")
    /\ crBounced' < crBounced => (crBounced' = crBounced - 1 /\ crPc' = "return")

\* C6: for every scene and every sequence of scatter outcomes the call
\* castRay(ray, rng, 0) terminates, and the nested invocations have the depth
\* arguments 0, 1, 2, ..., one more per bounce, never above maxBounces + 1.
C6_TerminatesWithinBudget ==
    /\ []C6_DepthsCount
    /\ [][C6_DepthStep]_vars
    /\ <>(crPc = "done")

\* C6 witness: a call has returned to getColor after its chain of nested
\* invocations reached depth maxBounces + 1 by scattering on metal only.
C6_Witness ==
    /\ crPc = "done"
    /\ crDeepest = maxBounces + 1
    /\ \A i \in 1..Len(world) : world[i].Material.kind = "Metal"

\* The ray parameters of the hits of ray on the shapes of w.
HitTs(w, ray) ==
    {Intersect(w[i], ray)[1].T : i \in {j \in 1..Len(w) : Intersect(w[j], ray) # Nil}}

\* C7: the scene query selects no hit exactly when every shape's Intersect
\* returns nil, and otherwise a hit of some shape whose T is the smallest T
\* of all the hits; every ordering of world gives the same T; and an
\* invocation that selected no hit returns the background radiance.
C7_NearestHitWins ==
    /\ crPc = "queried" =>
        LET ts == HitTs(world, crRay) IN
        /\ crHit = Nil <=> ts = {}
        /\ crHit # Nil =>
            /\ \E i \in 1..Len(world) : Intersect(world[i], crRay) = crHit
            /\ \A t \in ts : crHit[1].T <= t
        /\ \A w \in Orderings({world[i] : i \in 1..Len(world)}) :
            LET h == SceneQuery(w, crRay) IN
            /\ h = Nil <=> crHit = Nil
            /\ h # Nil => h[1].T = crHit[1].T
    /\ (crDone.valid /\ crDone.queried /\ crDone.hit = Nil) =>
            crDone.ret = Background(crDone.ray)

\* C7 witness: the ray hits at least two shapes at different distances and
\* the selected hit is not the first hit in the order of world.
C7_Witness ==
    /\ crPc = "queried"
    /\ Cardinality(HitTs(world, crRay)) >= 2
    /\ \E i \in 1..Len(world) :
        /\ Intersect(world[i], crRay) # Nil
        /\ Intersect(world[i], crRay)[1].T > crHit[1].T
        /\ \A j \in 1..(i - 1) : Intersect(world[j], crRay) = Nil

\* C9: an invocation that found a nearest hit called Scatter exactly once,
\* with its own ray and that hit; when Scatter declined it returned (0,0,0)
\* without a nested invocation; when Scatter scattered it made one nested
\* invocation, on the scattered ray with depth bounced + 1, and returned the
\* element-wise product of the attenuation and the nested result.
C9_ScatterOnceThenAttenuate ==
    (crDone.valid /\ crDone.hit # Nil) =>
        /\ crDone.scatterCalls = 1
        /\ \E rnd \in RandomPointInUnitSphere, u \in Float32Draws :
            LET sc == Scatter(crDone.hit[1].Material, crDone.ray, crDone.hit[1], rnd, u) IN
            /\ sc.didScatter = crDone.didScatter
            /\ sc.attenuation = crDone.attenuation
            /\ sc.scattered = crDone.scattered
        /\ ~crDone.didScatter => (crDone.ret = Zero /\ crDone.child = <<>>)
        /\ crDone.didScatter =>
            /\ Len(crDone.child) = 1
            /\ crDone.child[1].ray = crDone.scattered
            /\ crDone.child[1].bounced = crDone.bounced + 1
            /\ crDone.ret.X = FMul(crDone.attenuation.X, crDone.child[1].ret.X)
            /\ crDone.ret.Y = FMul(crDone.attenuation.Y, crDone.child[1].ret.Y)
            /\ crDone.ret.Z = FMul(crDone.attenuation.Z, crDone.child[1].ret.Z)

\* C9 witness: an invocation scattered on metal and returned a non-zero
\* product of a non-white attenuation and its nested invocation's result.
C9_Witness ==
    /\ crDone.valid
    /\ crDone.hit # Nil
    /\ crDone.hit[1].Material.kind = "Metal"
    /\ crDone.didScatter
    /\ crDone.attenuation # Vec3(Scale, Scale, Scale)
    /\ crDone.ret # Zero
    /\ crDone.ret # crDone.child[1].ret

(***************************************************************************)
(* Claims about Intersect and Dielectric.Scatter.                          *)
(***************************************************************************)
\* C8: every Hit returned by Intersect, of a Sphere or of a Plane, has T
\* strictly greater than the epsilon 1e-3.
C8_HitBeyondEpsilon ==
    (ixPc = "returned" /\ ixHit # Nil) =>
        (ixHit[1].T > SphereEpsilon /\ ixHit[1].T > PlaneEpsilon)

\* The discriminant refract computes in the Scatter call of the state.
DsDiscriminant ==
    LET dot == Dot(dsRay.Direction, dsHit[1].Normal)
    IN  IF dot > 0
        THEN RefractDiscriminant(dsRay.Direction, MulScalar(-Scale, dsHit[1].Normal),
                                 dsMat.ReflectionIndex)
        ELSE RefractDiscriminant(dsRay.Direction, dsHit[1].Normal,
                                 FDiv(Scale, dsMat.ReflectionIndex))

\* The Schlick reflectance Scatter computes in the Scatter call of the state.
DsSchlick ==
    LET dot == Dot(dsRay.Direction, dsHit[1].Normal)
    IN  IF dot > 0 THEN schlick(FMul(dsMat.ReflectionIndex, dot), dsMat.ReflectionIndex)
        ELSE schlick(-dot, dsMat.ReflectionIndex)

\* The reflected ray of the Scatter call of the state.
DsReflected ==
    LET d == dsRay.Direction
        n == dsHit[1].Normal
        k == 2 * Dot(n, d)
    IN  Ray(dsHit[1].Position, Vec3(d.X - FMul(n.X, k), d.Y - FMul(n.Y, k), d.Z - FMul(n.Z, k)))

\* Scatter returned the reflected ray without consulting the generator.
DsForcedReflection == dsOut.usedRng = 0 /\ dsOut.scattered = DsReflected

\* Scatter drew one random number u and returned the reflected ray when the
\* Schlick reflectance is not below u, another ray (the refracted one) when it is.
DsChosenByDraw ==
    /\ dsOut.usedRng = 1
    /\ ~(DsSchlick < dsU) => dsOut.scattered = DsReflected
    /\ DsSchlick < dsU =>
        /\ dsOut.scattered.Origin = dsHit[1].Position
        /\ dsOut.scattered.Direction # DsReflected.Direction
        /\ Dot(dsOut.scattered.Direction, dsHit[1].Normal) * Dot(dsRay.Direction, dsHit[1].Normal) >= 0

\* C10 as claimed: the reflection is forced exactly when the discriminant is
\* negative, and every non-negative discriminant, zero included, leaves the
\* choice to the comparison of the Schlick reflectance with a random draw.
C10_ForcedIffNegative ==
    dsPc = "returned" =>
        /\ dsOut.didScatter
        /\ dsOut.attenuation = Vec3(Scale, Scale, Scale)
        /\ DsDiscriminant < 0 => DsForcedReflection
        /\ DsDiscriminant >= 0 => DsChosenByDraw

\* C10 amended: Dielectric.Scatter always scatters with attenuation (1,1,1);
\* the reflection is forced exactly when the discriminant is negative or
\* zero, and for every strictly positive discriminant the choice is made by
\* comparing the Schlick reflectance with a random draw.
C10_ForcedIffNotPositive ==
    dsPc = "returned" =>
        /\ dsOut.didScatter
        /\ dsOut.attenuation = Vec3(Scale, Scale, Scale)
        /\ DsDiscriminant <= 0 => DsForcedReflection
        /\ DsDiscriminant > 0 => DsChosenByDraw

\* C10 witness: Scatter has returned from a call whose discriminant is
\* exactly zero, with the reflected ray and no random draw.
C10_Witness ==
    /\ dsPc = "returned"
    /\ DsDiscriminant = 0
    /\ DsForcedReflection

(***************************************************************************)
(* Claims about the tile scheduler.                                        *)
(***************************************************************************)
\* The pixel coordinates (x, y) of the rectangle [fromX,toX) x [fromY,toY).
RectPixels(t) == (t.fromX..(t.toX - 1)) \X (t.fromY..(t.toY - 1))

AllSpawned == spawned = NumWorkers

AllReturned == \A w \in Workers : wpc[w] = "done"

\* C1: the rectangles main has passed to processTile are pairwise disjoint,
\* and once all four calls are made their union is exactly the full
\* imageWidth x imageHeight grid.
C1_TilesPartitionImage ==
    /\ \A w1, w2 \in 1..spawned :
           w1 # w2 => RectPixels(tile[w1]) \cap RectPixels(tile[w2]) = {}
    /\ AllSpawned => UNION {RectPixels(tile[w]) : w \in Workers} = Pixels

\* C1 witness: main has executed all four go statements.
C1_Witness ==
    /\ AllSpawned
    /\ \A w \in Workers : RectPixels(tile[w]) # {}

\* C2: under every interleaving no pixel of the buffer is written more than
\* once (so never by two workers), and when all four workers have returned
\* every pixel of the buffer has been written exactly once.
C2_EachPixelWrittenOnce ==
    /\ \A p \in Pixels : Len(img[p]) <= 1
    /\ AllReturned => \A p \in Pixels : Len(img[p]) = 1

\* C2 witness: all workers have returned after writing, and two different
\* workers have written pixels of the buffer.
C2_Witness ==
    /\ AllReturned
    /\ \E p, q \in Pixels : img[p] # <<>> /\ img[q] # <<>> /\ img[p] # img[q]

\* The pixels worker w still has to write.
PixelsLeft(w) ==
    CASE wpc[w] = "done" -> {}
      [] wpc[w] = "loop" ->
            {p \in RectPixels(tile[w]) :
                p[2] > wy[w] \/ (p[2] = wy[w] /\ p[1] >= wx[w])}
      [] OTHER -> RectPixels(Tiles[w])

\* C3: while main is at png.Encode every worker has made its last pixel
\* write and has called waitGroup.Done.
C3_EncodeAfterAllWorkers ==
    mainPc = "encode" =>
        /\ \A w \in Workers : PixelsLeft(w) = {} /\ wpc[w] = "done"
        /\ waitGroup = 0

\* C3 witness: main is at png.Encode.
C3_Witness == mainPc = "encode"

\* C5: the workers that have seeded their random generator have pairwise
\* distinct seeds.
C5_DistinctSeeds ==
    \A w1, w2 \in Workers :
        (w1 # w2 /\ seed[w1] # -1 /\ seed[w2] # -1) => seed[w1] # seed[w2]

\* The workers, started or not, that have not returned.
NotReturned == {w \in Workers : wpc[w] # "done"}

\* From waitGroup.Add(4) on the counter is the number of workers that have
\* not returned, and it is never negative.
C11_CounterIsNotReturned ==
    /\ waitGroup >= 0
    /\ mainPc # "add" => waitGroup = Cardinality(NotReturned)

\* A step changes the counter only by the Add of main or by the one Done of
\* a worker that returns in that step, every return of a worker calls Done,
\* and a worker that has returned takes no further step.
C11_DoneOncePerWorker ==
    /\ waitGroup' > waitGroup => (mainPc = "add" /\ waitGroup' = waitGroup + WaitGroupDelta)
    /\ waitGroup' < waitGroup =>
        /\ waitGroup' = waitGroup - 1
        /\ Cardinality({w \in Workers : wpc[w] # "done" /\ wpc'[w] = "done"}) = 1
    /\ \A w \in Workers :
        /\ (wpc[w] # "done" /\ wpc'[w] = "done") => waitGroup' = waitGroup - 1
        /\ wpc[w] = "done" => wpc'[w] = "done"

\* C11: the WaitGroup counter set by Add(4) always equals the number of
\* processTile workers that have not yet returned, each worker calls Done
\* exactly once, the counter never goes negative, and under fair scheduling
\* Wait eventually returns and main reaches png.Encode.
C11_WaitGroupCountsWorkers ==
    /\ []C11_CounterIsNotReturned
    /\ [][C11_DoneOncePerWorker]_vars
    /\ <>(mainPc = "encode" /\ waitGroup = 0 /\ NotReturned = {})

\* C11 witness: main is blocked in Wait while two workers have returned and
\* two are still running, with the counter at two.
C11_Witness ==
    /\ mainPc = "wait"
    /\ Cardinality(NotReturned) = 2
    /\ waitGroup = 2

\* The vertical mirror image of the rectangle [fromX,toX) x [fromY,toY):
\* columns [fromX,toX), rows [imageHeight-toY, imageHeight-fromY).
MirroredPixels(t) ==
    (t.fromX..(t.toX - 1)) \X ((imageHeight - t.toY)..(imageHeight - t.fromY - 1))

\* The workers whose next step is an img.Set.
AboutToSet == {w \in Workers : wpc[w] = "loop" /\ wy[w] < tile[w].toY /\ wx[w] < tile[w].toX}

\* C12: every img.Set of processTile, for a tile with
\* 0 <= fromY <= toY <= imageHeight, targets a coordinate inside the image,
\* with column x in [fromX,toX) and row imageHeight-y-1 in
\* [imageHeight-toY, imageHeight-fromY); every pixel written so far lies in
\* the mirrored tile of the worker that wrote it; and the mirrored tiles of
\* the workers main has started are pairwise disjoint and, once all four
\* are started, cover the image.
C12_SetInsideMirroredTile ==
    /\ \A w \in 1..spawned :
           /\ 0 <= tile[w].fromY /\ tile[w].fromY <= tile[w].toY /\ tile[w].toY <= imageHeight
           /\ MirroredPixels(tile[w]) \subseteq Pixels
    /\ \A w \in AboutToSet :
           /\ SetCoord(wx[w], wy[w]) \in Pixels
           /\ SetCoord(wx[w], wy[w]) \in MirroredPixels(tile[w])
           /\ SetCoord(wx[w], wy[w])[1] = wx[w]
           /\ SetCoord(wx[w], wy[w])[2] = imageHeight - wy[w] - 1
    /\ \A p \in Pixels : \A i \in 1..Len(img[p]) : p \in MirroredPixels(tile[img[p][i]])
    /\ \A w \in Workers :
           wpc[w] = "done" => \A p \in MirroredPixels(tile[w]) : img[p] # <<>>
    /\ \A w1, w2 \in 1..spawned :
           w1 # w2 => MirroredPixels(tile[w1]) \cap MirroredPixels(tile[w2]) = {}
    /\ AllSpawned => UNION {MirroredPixels(tile[w]) : w \in Workers} = Pixels

\* C12 witness: a worker has written a pixel of its mirrored tile that lies
\* outside its own tile, and another worker is about to call img.Set.
C12_Witness ==
    /\ \E p \in Pixels : \E w \in Workers :
           img[p] = <<w>> /\ p \notin RectPixels(tile[w]) /\ p \in MirroredPixels(tile[w])
    /\ AboutToSet # {}

====
